---- MODULE Spec2Model ----
(***************************************************************************)
(* A model of the ACIS SAB decoder, src/src/ezdxf/_acis/sab.py.            *)
(*                                                                         *)
(* The byte buffer is a sequence of integers 0..255.  Python objects are   *)
(* records with the fields kind and val:                                   *)
(*   int      [kind |-> "int",    val |-> <<n>>]                            *)
(*   bool     [kind |-> "bool",   val |-> <<0>> or <<1>>]                   *)
(*   float    [kind |-> "float",  val |-> the 8 bytes of the double]        *)
(*   str      [kind |-> "str",    val |-> the code points]                  *)
(*   tuple of floats [kind |-> "floats", val |-> the 8*n bytes]             *)
(*   a SabEntity of the entity list  [kind |-> "entity", val |-> <<k>>],    *)
(*            k the 0-based position of the entity in the list              *)
(*   the NULL_PTR object             [kind |-> "null",   val |-> <<>>]      *)
(*   None                            [kind |-> "none",   val |-> <<>>]      *)
(* An exception is the name of its class; "" is no exception.              *)
(***************************************************************************)
EXTENDS Integers, Sequences, FiniteSets, TLC

\* ------------------------------------------------------------ bounds
\* Entity records of a generated stream.
MaxRecords == 2
\* Free items of a generated token record.
MaxItems == 2

\* ------------------------------------------------- const.py (Tags etc.)
INT == 4
DOUBLE == 6
STR == 7
BOOL_TRUE == 10
BOOL_FALSE == 11
POINTER == 12
ENTITY_TYPE == 13
ENTITY_TYPE_EX == 14
SUBTYPE_START == 15
SUBTYPE_END == 16
RECORD_END == 17
LONG_STR == 18
LOCATION_VEC == 19
DIRECTION_VEC == 20
UNKNOWN_0x15 == 21
UNKNOWN_0x17 == 23

\* "End-of-ACIS-data", "End-of-ASM-data"
EndOfAcisData == <<69, 110, 100, 45, 111, 102, 45, 65, 67, 73, 83, 45, 100, 97, 116, 97>>
EndOfAsmData == <<69, 110, 100, 45, 111, 102, 45, 65, 83, 77, 45, 100, 97, 116, 97>>
DATA_END_MARKERS == {EndOfAcisData, EndOfAsmData}

\* "ACIS BinaryFile"
Signature == <<65, 67, 73, 83, 32, 66, 105, 110, 97, 114, 121, 70, 105, 108, 101>>
\* "body"
BodyName == <<98, 111, 100, 121>>
\* "null-ptr"
NullPtrName == <<110, 117, 108, 108, 45, 112, 116, 114>>
\* "1 Jan 1900 00:00:00"
GoodDate == <<49, 32, 74, 97, 110, 32, 49, 57, 48, 48, 32, 48, 48, 58, 48, 48, 58, 48, 48>>

\* datetime.strptime(date, DATE_FMT) succeeds
DateMatches(s) == s = GoodDate

\* ----------------------------------------------------- Python values
PyInt(n) == [kind |-> "int", val |-> <<n>>]
PyBool(b) == [kind |-> "bool", val |-> <<IF b THEN 1 ELSE 0>>]
PyFloat(bytes) == [kind |-> "float", val |-> bytes]
PyFloats(bytes) == [kind |-> "floats", val |-> bytes]
PyStr(s) == [kind |-> "str", val |-> s]
EntityRef(k) == [kind |-> "entity", val |-> <<k>>]
NullRef == [kind |-> "null", val |-> <<>>]
None == [kind |-> "none", val |-> <<>>]

\* struct.pack("<d", -1.0)
MinusOneDouble == <<0, 0, 0, 0, 0, 0, 240, 191>>

\* Python's v == -1
EqualsMinusOne(v) ==
    \/ v.kind = "int" /\ v.val[1] = -1
    \/ v.kind = "float" /\ v.val = MinusOneDouble

\* Python's `v in DATA_END_MARKERS`
InMarkers(v) == v.kind = "str" /\ v.val \in DATA_END_MARKERS

Token(tag, value) == [tag |-> tag, value |-> value]

Min(a, b) == IF a < b THEN a ELSE b
Max(a, b) == IF a > b THEN a ELSE b

\* ------------------------------------------------ bytes and sequences
\* data[pos] raises IndexError
IndexOutOfRange(n, pos) == pos >= n \/ pos < -n
\* data[pos], negative positions counted from the end
GetItem(seq, pos) == IF pos < 0 THEN seq[Len(seq) + pos + 1] ELSE seq[pos + 1]

Clamp(n, i) == IF i < 0 THEN Max(i + n, 0) ELSE Min(i, n)
\* data[start:stop]
Slice(seq, start, stop) ==
    LET s == Clamp(Len(seq), start)
        e == Clamp(Len(seq), stop)
    IN  IF s < e THEN SubSeq(seq, s + 1, e) ELSE <<>>

\* struct.unpack_from(fmt, data, pos) with calcsize(fmt) = size raises struct.error
UnpackFails(n, pos, size) ==
    LET p == IF pos < 0 THEN pos + n ELSE pos
    IN  p < 0 \/ n - p < size

\* The bytes struct.unpack_from reads
UnpackBytes(seq, pos, size) ==
    LET p == IF pos < 0 THEN pos + Len(seq) ELSE pos
    IN  SubSeq(seq, p + 1, p + size)

\* "<i": little-endian signed 32-bit
Int32(b) ==
    b[1] + 256 * b[2] + 65536 * b[3]
    + 16777216 * (IF b[4] >= 128 THEN b[4] - 256 ELSE b[4])

\* bytes.decode(): UTF-8.  Every byte below 0x80 is the code point itself; the
\* inputs hold no byte of a multi-byte sequence except 0xFF, which no UTF-8
\* text contains.
DecodeFails(bytes) == \E i \in 1..Len(bytes) : bytes[i] >= 128

\* ------------------------------------------------------- Decoder reads
\* Every read returns [err, value, index]; index is the cursor after the
\* read (forward() moves it before the data is touched).
read_byte(data, index) ==
    IF IndexOutOfRange(Len(data), index)
    THEN [err |-> "IndexError", value |-> None, index |-> index + 1]
    ELSE [err |-> "", value |-> PyInt(GetItem(data, index)), index |-> index + 1]

read_bytes(data, index, count) ==
    [err |-> "", value |-> Slice(data, index, index + count), index |-> index + count]

read_int(data, index) ==
    IF UnpackFails(Len(data), index, 4)
    THEN [err |-> "struct.error", value |-> None, index |-> index + 4]
    ELSE [err |-> "", value |-> PyInt(Int32(UnpackBytes(data, index, 4))),
          index |-> index + 4]

read_float(data, index) ==
    IF UnpackFails(Len(data), index, 8)
    THEN [err |-> "struct.error", value |-> None, index |-> index + 8]
    ELSE [err |-> "", value |-> PyFloat(UnpackBytes(data, index, 8)),
          index |-> index + 8]

read_floats(data, index, count) ==
    IF UnpackFails(Len(data), index, 8 * count)
    THEN [err |-> "struct.error", value |-> None, index |-> index + 8 * count]
    ELSE [err |-> "", value |-> PyFloats(UnpackBytes(data, index, 8 * count)),
          index |-> index + 8 * count]

read_str(data, index, length) ==
    LET text == read_bytes(data, index, length)
    IN  IF DecodeFails(text.value)
        THEN [err |-> "UnicodeDecodeError", value |-> None, index |-> text.index]
        ELSE [err |-> "", value |-> PyStr(text.value), index |-> text.index]

\* read_str(read_byte()): the one-byte length, then the text
read_short_str(data, index) ==
    LET n == read_byte(data, index)
    IN  IF n.err # "" THEN n ELSE read_str(data, n.index, n.value.val[1])

\* read_str(read_int()): the four-byte length, then the text
read_long_str(data, index) ==
    LET n == read_int(data, index)
    IN  IF n.err # "" THEN n ELSE read_str(data, n.index, n.value.val[1])

read_str_tag(data, index) ==
    LET tag == read_byte(data, index)
    IN  IF tag.err # "" THEN tag
        ELSE IF tag.value.val[1] # STR
        THEN [err |-> "ParsingError", value |-> None, index |-> tag.index]
        ELSE read_short_str(data, tag.index)

\* read_double_tag reading the double before it looks at the tag
read_double_tag_reads_first(data, index) ==
    LET tag == read_byte(data, index)
    IN  IF tag.err # "" THEN tag
        ELSE LET value == read_float(data, tag.index)
             IN  IF value.err # "" THEN value
                 ELSE IF tag.value.val[1] # DOUBLE
                 THEN [err |-> "ParsingError", value |-> None, index |-> value.index]
                 ELSE value

read_double_tag(data, index) ==
    LET tag == read_byte(data, index)
    IN  IF tag.err # "" THEN tag
        ELSE IF tag.value.val[1] # DOUBLE
        THEN [err |-> "ParsingError", value |-> None, index |-> tag.index]
        ELSE read_float(data, tag.index)

\* -------------------------------------------------------- read_header
\* An attribute of the AcisHeader() object that read_header has not assigned.
Unassigned == [kind |-> "unassigned", val |-> <<>>]

\* The fields with the second and the third integer taken for each other
HeaderFields_counts_swapped ==
    <<"version", "n_entities", "n_records", "flags", "product_id",
      "acis_version", "creation_date", "units_in_mm", "res_tol", "nor_tol">>

HeaderFields ==
    <<"version", "n_records", "n_entities", "flags", "product_id",
      "acis_version", "creation_date", "units_in_mm", "res_tol", "nor_tol">>

\* The attributes read_header assigns; the two tolerances are read and dropped.
HeaderAttributes ==
    {"version", "n_records", "n_entities", "flags", "product_id",
     "acis_version", "creation_date", "units_in_mm"}

AcisHeader == [f \in HeaderAttributes |-> Unassigned]

\* The read of the i-th header field, in the order of the statements.
read_header_field(data, index, i) ==
    IF i <= 4 THEN read_int(data, index)
    ELSE IF i <= 6 THEN read_str_tag(data, index)
    ELSE IF i = 7
    THEN LET date == read_str_tag(data, index)
         IN  IF date.err # "" THEN date
             ELSE IF ~DateMatches(date.value.val)
             THEN [err |-> "ValueError", value |-> None, index |-> date.index]
             ELSE [err |-> "", value |-> [kind |-> "datetime", val |-> date.value.val],
                   index |-> date.index]
    ELSE read_double_tag(data, index)

RECURSIVE read_header_from(_, _, _, _)
read_header_from(data, index, header, i) ==
    IF i > Len(HeaderFields) THEN [err |-> "", index |-> index, header |-> header]
    ELSE LET r == read_header_field(data, index, i)
         IN  IF r.err # "" THEN [err |-> r.err, index |-> r.index, header |-> header]
             ELSE read_header_from(
                    data, r.index,
                    IF HeaderFields[i] \in HeaderAttributes
                    THEN [header EXCEPT ![HeaderFields[i]] = r.value] ELSE header,
                    i + 1)

\* read_header comparing the signature only when the buffer holds 15 bytes
read_header_unless_short(data, index) ==
    IF Len(data) >= 15 /\ Slice(data, 0, 15) # Signature
    THEN [err |-> "ParsingError", index |-> index, header |-> AcisHeader]
    ELSE read_header_from(data, 15, AcisHeader, 1)

\* [err, index, header]: the exception raised, the cursor and the header object
\* when read_header returns or raises.
read_header(data, index) ==
    IF Slice(data, 0, 15) # Signature
    THEN [err |-> "ParsingError", index |-> index, header |-> AcisHeader]
    ELSE read_header_from(data, 15, AcisHeader, 1)

\* -------------------------------------------------------- read_record
RECURSIVE JoinDash(_)
\* "-".join(entity_type)
JoinDash(parts) ==
    IF Len(parts) = 0 THEN <<>>
    ELSE IF Len(parts) = 1 THEN parts[1]
    ELSE parts[1] \o <<45>> \o JoinDash(Tail(parts))

\* entity_name giving the last part alone
entity_name_last_part(entity_type) == PyStr(entity_type[Len(entity_type)])

entity_name(entity_type) == PyStr(JoinDash(entity_type))

\* The state of read_record after one pass of its loop: err the exception
\* raised, ret whether the function returned values.
Loop(err, ret, index, values, entity_type, subtype_level) ==
    [err |-> err, ret |-> ret, index |-> index, values |-> values,
     entity_type |-> entity_type, subtype_level |-> subtype_level]

\* AppendRead putting the token in front of the others
AppendRead_prepends(tag, r, values, entity_type, subtype_level) ==
    IF r.err # ""
    THEN Loop(r.err, FALSE, r.index, values, entity_type, subtype_level)
    ELSE Loop("", FALSE, r.index, <<Token(tag, r.value)>> \o values,
              entity_type, subtype_level)

\* A tag whose value is the payload read by r: append Token(tag, value).
AppendRead(tag, r, values, entity_type, subtype_level) ==
    IF r.err # ""
    THEN Loop(r.err, FALSE, r.index, values, entity_type, subtype_level)
    ELSE Loop("", FALSE, r.index, Append(values, Token(tag, r.value)),
              entity_type, subtype_level)

\* dispatch counting a SUBTYPE_END down before it appends the token
dispatch_end_counts_first(data, index, tag, values, entity_type, subtype_level) ==
    IF tag \in {INT, POINTER, UNKNOWN_0x15}
    THEN AppendRead(tag, read_int(data, index), values, entity_type, subtype_level)
    ELSE IF tag \in {DOUBLE, UNKNOWN_0x17}
    THEN AppendRead(tag, read_float(data, index), values, entity_type, subtype_level)
    ELSE IF tag = STR
    THEN AppendRead(tag, read_short_str(data, index), values, entity_type, subtype_level)
    ELSE IF tag = BOOL_FALSE
    THEN Loop("", FALSE, index, Append(values, Token(tag, PyBool(FALSE))),
              entity_type, subtype_level)
    ELSE IF tag = BOOL_TRUE
    THEN Loop("", FALSE, index, Append(values, Token(tag, PyBool(TRUE))),
              entity_type, subtype_level)
    ELSE IF tag = LONG_STR
    THEN AppendRead(tag, read_long_str(data, index), values, entity_type, subtype_level)
    ELSE IF tag = ENTITY_TYPE_EX
    THEN LET r == read_short_str(data, index)
         IN  IF r.err # ""
             THEN Loop(r.err, FALSE, r.index, values, entity_type, subtype_level)
             ELSE Loop("", FALSE, r.index, values, Append(entity_type, r.value.val),
                       subtype_level)
    ELSE IF tag = ENTITY_TYPE
    THEN LET r == read_short_str(data, index)
         IN  IF r.err # ""
             THEN Loop(r.err, FALSE, r.index, values, entity_type, subtype_level)
             ELSE Loop("", FALSE, r.index,
                       Append(values,
                              Token(tag, entity_name(Append(entity_type, r.value.val)))),
                       <<>>, subtype_level)
    ELSE IF tag \in {LOCATION_VEC, DIRECTION_VEC}
    THEN AppendRead(tag, read_floats(data, index, 3), values, entity_type, subtype_level)
    ELSE IF tag = SUBTYPE_START
    THEN Loop("", FALSE, index,
              Append(values, Token(tag, PyInt(subtype_level + 1))),
              entity_type, subtype_level + 1)
    ELSE IF tag = SUBTYPE_END
    THEN Loop("", FALSE, index,
              Append(values, Token(tag, PyInt(subtype_level - 1))),
              entity_type, subtype_level - 1)
    ELSE IF tag = RECORD_END
    THEN Loop("", TRUE, index, values, entity_type, subtype_level)
    \* the message of the ParsingError reads values[0]
    ELSE IF Len(values) = 0
    THEN Loop("IndexError", FALSE, index, values, entity_type, subtype_level)
    ELSE Loop("ParsingError", FALSE, index, values, entity_type, subtype_level)

\* The branch of the if/elif chain for tag, the cursor behind the tag byte.
dispatch(data, index, tag, values, entity_type, subtype_level) ==
    IF tag \in {INT, POINTER, UNKNOWN_0x15}
    THEN AppendRead(tag, read_int(data, index), values, entity_type, subtype_level)
    ELSE IF tag \in {DOUBLE, UNKNOWN_0x17}
    THEN AppendRead(tag, read_float(data, index), values, entity_type, subtype_level)
    ELSE IF tag = STR
    THEN AppendRead(tag, read_short_str(data, index), values, entity_type, subtype_level)
    ELSE IF tag = BOOL_FALSE
    THEN Loop("", FALSE, index, Append(values, Token(tag, PyBool(FALSE))),
              entity_type, subtype_level)
    ELSE IF tag = BOOL_TRUE
    THEN Loop("", FALSE, index, Append(values, Token(tag, PyBool(TRUE))),
              entity_type, subtype_level)
    ELSE IF tag = LONG_STR
    THEN AppendRead(tag, read_long_str(data, index), values, entity_type, subtype_level)
    ELSE IF tag = ENTITY_TYPE_EX
    THEN LET r == read_short_str(data, index)
         IN  IF r.err # ""
             THEN Loop(r.err, FALSE, r.index, values, entity_type, subtype_level)
             ELSE Loop("", FALSE, r.index, values, Append(entity_type, r.value.val),
                       subtype_level)
    ELSE IF tag = ENTITY_TYPE
    THEN LET r == read_short_str(data, index)
         IN  IF r.err # ""
             THEN Loop(r.err, FALSE, r.index, values, entity_type, subtype_level)
             ELSE Loop("", FALSE, r.index,
                       Append(values,
                              Token(tag, entity_name(Append(entity_type, r.value.val)))),
                       <<>>, subtype_level)
    ELSE IF tag \in {LOCATION_VEC, DIRECTION_VEC}
    THEN AppendRead(tag, read_floats(data, index, 3), values, entity_type, subtype_level)
    ELSE IF tag = SUBTYPE_START
    THEN Loop("", FALSE, index,
              Append(values, Token(tag, PyInt(subtype_level + 1))),
              entity_type, subtype_level + 1)
    ELSE IF tag = SUBTYPE_END
    THEN Loop("", FALSE, index,
              Append(values, Token(tag, PyInt(subtype_level))),
              entity_type, subtype_level - 1)
    ELSE IF tag = RECORD_END
    THEN Loop("", TRUE, index, values, entity_type, subtype_level)
    \* the message of the ParsingError reads values[0]
    ELSE IF Len(values) = 0
    THEN Loop("IndexError", FALSE, index, values, entity_type, subtype_level)
    ELSE Loop("ParsingError", FALSE, index, values, entity_type, subtype_level)

has_data(data, index) == index < Len(data)

\* read_record_pass returning every record that has a token at the end of
\* the data
read_record_pass_returns_partial(data, index, values, entity_type, subtype_level) ==
    IF ~has_data(data, index)
    THEN IF Len(values) > 0
         THEN Loop("", TRUE, index, values, entity_type, subtype_level)
         ELSE Loop("ParsingError", FALSE, index, values, entity_type, subtype_level)
    ELSE LET tag == read_byte(data, index)
         IN  IF tag.err # ""
             THEN Loop(tag.err, FALSE, tag.index, values, entity_type, subtype_level)
             ELSE dispatch(data, tag.index, tag.value.val[1], values, entity_type,
                           subtype_level)

\* One pass of the `while True` loop of read_record.
read_record_pass(data, index, values, entity_type, subtype_level) ==
    IF ~has_data(data, index)
    THEN IF Len(values) > 0 /\ InMarkers(values[1].value)
         THEN Loop("", TRUE, index, values, entity_type, subtype_level)
         ELSE Loop("ParsingError", FALSE, index, values, entity_type, subtype_level)
    ELSE LET tag == read_byte(data, index)
         IN  IF tag.err # ""
             THEN Loop(tag.err, FALSE, tag.index, values, entity_type, subtype_level)
             ELSE dispatch(data, tag.index, tag.value.val[1], values, entity_type,
                           subtype_level)

\* A pass that appends a token and leaves the cursor on the tag byte it has
\* read: every later pass does the same, the loop of read_record never ends.
rereads(data, index, values, entity_type, subtype_level) ==
    LET r == read_record_pass(data, index, values, entity_type, subtype_level)
    IN  r.err = "" /\ ~r.ret /\ r.index = index

\* ------------------------------------------------------ SabEntity etc.
SabEntity(name, attr_ptr, id, data) ==
    [name |-> name, attr_ptr |-> attr_ptr, id |-> id, data |-> data,
     attributes |-> None]

\* SabEntity(name): the defaults of __init__
MarkerEntity(name) == SabEntity(name, PyInt(-1), PyInt(-1), <<>>)

\* NULL_PTR = SabEntity("null-ptr", -1, -1, tuple())
NullPtrObject == SabEntity(PyStr(NullPtrName), PyInt(-1), PyInt(-1), <<>>)

\* build_entities without the test for a data-end marker
build_entity_no_marker(record, version) ==
    IF Len(record) < (IF version >= 700 THEN 3 ELSE 2)
    THEN [err |-> "IndexError", entity |-> None, last |-> FALSE]
    ELSE IF version >= 700
    THEN [err |-> "", last |-> FALSE,
          entity |-> SabEntity(record[1].value, record[2].value, record[3].value,
                               SubSeq(record, 4, Len(record)))]
    ELSE [err |-> "", last |-> FALSE,
          entity |-> SabEntity(record[1].value, record[2].value, PyInt(-1),
                               SubSeq(record, 3, Len(record)))]

\* build_entities taking the id from the record above version 700 only
build_entity_above_700(record, version) ==
    IF Len(record) < 1 THEN [err |-> "IndexError", entity |-> None, last |-> FALSE]
    ELSE IF InMarkers(record[1].value)
    THEN [err |-> "", entity |-> MarkerEntity(record[1].value), last |-> TRUE]
    ELSE IF Len(record) < 2
    THEN [err |-> "IndexError", entity |-> None, last |-> FALSE]
    ELSE IF version > 700
    THEN IF Len(record) < 3
         THEN [err |-> "IndexError", entity |-> None, last |-> FALSE]
         ELSE [err |-> "", last |-> FALSE,
               entity |-> SabEntity(record[1].value, record[2].value, record[3].value,
                                    SubSeq(record, 4, Len(record)))]
    ELSE [err |-> "", last |-> FALSE,
          entity |-> SabEntity(record[1].value, record[2].value, PyInt(-1),
                               SubSeq(record, 3, Len(record)))]

\* build_entities going on with the next record behind a marker
build_entity_marker_continues(record, version) ==
    IF Len(record) < 1 THEN [err |-> "IndexError", entity |-> None, last |-> FALSE]
    ELSE IF InMarkers(record[1].value)
    THEN [err |-> "", entity |-> MarkerEntity(record[1].value), last |-> FALSE]
    ELSE IF Len(record) < 2
    THEN [err |-> "IndexError", entity |-> None, last |-> FALSE]
    ELSE IF version >= 700
    THEN IF Len(record) < 3
         THEN [err |-> "IndexError", entity |-> None, last |-> FALSE]
         ELSE [err |-> "", last |-> FALSE,
               entity |-> SabEntity(record[1].value, record[2].value, record[3].value,
                                    SubSeq(record, 4, Len(record)))]
    ELSE [err |-> "", last |-> FALSE,
          entity |-> SabEntity(record[1].value, record[2].value, PyInt(-1),
                               SubSeq(record, 3, Len(record)))]

\* build_entities giving a record without an id the id -1
build_entity_pads(record, version) ==
    IF Len(record) < 1 THEN [err |-> "IndexError", entity |-> None, last |-> FALSE]
    ELSE IF InMarkers(record[1].value)
    THEN [err |-> "", entity |-> MarkerEntity(record[1].value), last |-> TRUE]
    ELSE IF Len(record) < 2
    THEN [err |-> "IndexError", entity |-> None, last |-> FALSE]
    ELSE IF version >= 700 /\ Len(record) >= 3
    THEN [err |-> "", last |-> FALSE,
          entity |-> SabEntity(record[1].value, record[2].value, record[3].value,
                               SubSeq(record, 4, Len(record)))]
    ELSE [err |-> "", last |-> FALSE,
          entity |-> SabEntity(record[1].value, record[2].value, PyInt(-1),
                               SubSeq(record, 3, Len(record)))]

\* The body of the for loop of build_entities for one record:
\* [err, entity, last]; last: the generator returns after the yield.
build_entity(record, version) ==
    IF Len(record) < 1 THEN [err |-> "IndexError", entity |-> None, last |-> FALSE]
    ELSE IF InMarkers(record[1].value)
    THEN [err |-> "", entity |-> MarkerEntity(record[1].value), last |-> TRUE]
    ELSE IF Len(record) < 2
    THEN [err |-> "IndexError", entity |-> None, last |-> FALSE]
    ELSE IF version >= 700
    THEN IF Len(record) < 3
         THEN [err |-> "IndexError", entity |-> None, last |-> FALSE]
         ELSE [err |-> "", last |-> FALSE,
               entity |-> SabEntity(record[1].value, record[2].value, record[3].value,
                                    SubSeq(record, 4, Len(record)))]
    ELSE [err |-> "", last |-> FALSE,
          entity |-> SabEntity(record[1].value, record[2].value, PyInt(-1),
                               SubSeq(record, 3, Len(record)))]

\* ---------------------------------------------------- resolve_pointers
\* list[num] for an int or a bool: [err, value]
get_entity(entities, n) ==
    IF IndexOutOfRange(Len(entities), n) THEN [err |-> "IndexError", value |-> None]
    ELSE [err |-> "", value |-> EntityRef(IF n < 0 THEN Len(entities) + n ELSE n)]

\* ptr taking every negative number for the null pointer
ptr_negative_is_null(entities, num) ==
    IF num.kind = "int" /\ num.val[1] < 0 THEN [err |-> "", value |-> NullRef]
    ELSE IF num.kind \notin {"int", "bool"} THEN [err |-> "TypeError", value |-> None]
    ELSE get_entity(entities, num.val[1])

\* ptr counting the entities from 1
ptr_one_based(entities, num) ==
    IF EqualsMinusOne(num) THEN [err |-> "", value |-> NullRef]
    ELSE IF num.kind \notin {"int", "bool"} THEN [err |-> "TypeError", value |-> None]
    ELSE get_entity(entities, num.val[1] - 1)

\* ptr returning a reference that is already resolved as it is
ptr_keeps_references(entities, num) ==
    IF num.kind \in {"entity", "null"} THEN [err |-> "", value |-> num]
    ELSE IF EqualsMinusOne(num) THEN [err |-> "", value |-> NullRef]
    ELSE IF num.kind \notin {"int", "bool"} THEN [err |-> "TypeError", value |-> None]
    ELSE get_entity(entities, num.val[1])

\* ptr(num) of resolve_pointers: [err, value]
ptr(entities, num) ==
    IF EqualsMinusOne(num) THEN [err |-> "", value |-> NullRef]
    ELSE IF num.kind \notin {"int", "bool"} THEN [err |-> "TypeError", value |-> None]
    ELSE get_entity(entities, num.val[1])

RECURSIVE resolve_data(_, _, _)
\* The inner loop over entity e's data from token t on: [err, entities]
resolve_data(entities, e, t) ==
    IF t > Len(entities[e].data) THEN [err |-> "", entities |-> entities]
    ELSE LET token == entities[e].data[t]
         IN  IF token.tag # POINTER THEN resolve_data(entities, e, t + 1)
             ELSE LET p == ptr(entities, token.value)
                  IN  IF p.err # "" THEN [err |-> p.err, entities |-> entities]
                      ELSE resolve_data(
                             [entities EXCEPT ![e].data[t] = Token(token.tag, p.value)],
                             e, t + 1)

RECURSIVE resolve_from_resets_id(_, _)
\* The outer loop setting id, not attr_ptr, to -1
resolve_from_resets_id(entities, e) ==
    IF e > Len(entities) THEN [err |-> "", entities |-> entities]
    ELSE LET p == ptr(entities, entities[e].attr_ptr)
         IN  IF p.err # "" THEN [err |-> p.err, entities |-> entities]
             ELSE LET r == resolve_data(
                             [entities EXCEPT ![e].attributes = p.value,
                                              ![e].id = PyInt(-1)],
                             e, 1)
                  IN  IF r.err # "" THEN r ELSE resolve_from_resets_id(r.entities, e + 1)

RECURSIVE resolve_from(_, _)
\* The outer loop from entity e on: [err, entities]
resolve_from(entities, e) ==
    IF e > Len(entities) THEN [err |-> "", entities |-> entities]
    ELSE LET p == ptr(entities, entities[e].attr_ptr)
         IN  IF p.err # "" THEN [err |-> p.err, entities |-> entities]
             ELSE LET r == resolve_data(
                             [entities EXCEPT ![e].attributes = p.value,
                                              ![e].attr_ptr = PyInt(-1)],
                             e, 1)
                  IN  IF r.err # "" THEN r ELSE resolve_from(r.entities, e + 1)

\* resolve_pointers leaving out the first entity of the list
resolve_pointers_from_second(entities) == resolve_from(entities, 2)

\* [err, entities]: the exception raised and the list (changed in place)
resolve_pointers(entities) == resolve_from(entities, 1)

\* ------------------------------------------------------- set_entities
IsBody(e) == e.name = PyStr(BodyName)

RECURSIVE BodiesFrom(_, _)
BodiesFrom(entities, i) ==
    IF i > Len(entities) THEN <<>>
    ELSE (IF IsBody(entities[i]) THEN <<EntityRef(i - 1)>> ELSE <<>>)
         \o BodiesFrom(entities, i + 1)

\* set_entities keeping the first body only
select_first_body(entities) ==
    LET all == BodiesFrom(entities, 1)
    IN  IF Len(all) = 0 THEN <<>> ELSE <<all[1]>>

\* [e for e in entities if e.name == "body"], as references into the list
select_bodies(entities) == BodiesFrom(entities, 1)

\* ---------------------------------------------------------- the inputs
\* struct.pack("<i", n)
LE32(n) ==
    <<n % 256, (n \div 256) % 256, (n \div 65536) % 256, (n \div 16777216) % 256>>

\* struct.pack("<d", 1.0), struct.pack("<d", 0.01)
OneDouble == <<0, 0, 0, 0, 0, 0, 240, 63>>
HundredthDouble == <<123, 20, 174, 71, 225, 122, 132, 63>>

IntItem(n) == <<INT>> \o LE32(n)
PtrItem(k) == <<POINTER>> \o LE32(k)
DoubleItem(bytes) == <<DOUBLE>> \o bytes
StrItem(s) == <<STR, Len(s)>> \o s
LongStrItem(n, s) == <<LONG_STR>> \o LE32(n) \o s
TypeItem(s) == <<ENTITY_TYPE, Len(s)>> \o s
TypeExItem(s) == <<ENTITY_TYPE_EX, Len(s)>> \o s
VecItem(tag) == <<tag>> \o OneDouble \o MinusOneDouble \o HundredthDouble
EndItem == <<RECORD_END>>

\* "x", "a", "p"
NameX == <<120>>
NameA == <<97>>
NameP == <<112>>
\* a byte that is no tag
BadTagItem == <<0>>
\* a byte no UTF-8 text contains
BadString == <<255>>

\* signature, version, three counts, three strings, three doubles; tags[i] is
\* the tag byte written in front of the i-th tagged field
HeaderWith(version, date, tags) ==
    Signature \o LE32(version) \o LE32(0) \o LE32(0) \o LE32(0)
    \o <<tags[1], Len(NameP)>> \o NameP
    \o <<tags[2], Len(NameA)>> \o NameA
    \o <<tags[3], Len(date)>> \o date
    \o <<tags[4]>> \o OneDouble
    \o <<tags[5]>> \o HundredthDouble
    \o <<tags[6]>> \o HundredthDouble

GoodTags == <<STR, STR, STR, DOUBLE, DOUBLE, DOUBLE>>
Header(version) == HeaderWith(version, GoodDate, GoodTags)

\* A header whose four integers differ from each other.
CountedHeader(version) ==
    Signature \o LE32(version) \o LE32(1) \o LE32(2) \o LE32(3)
    \o SubSeq(Header(version), 32, Len(Header(version)))

Versions == {699, 700}

MarkerRecord == StrItem(EndOfAcisData) \o EndItem

\* The raw pointer values: null, the positions of a full list (MaxRecords
\* entities and the marker), and values on both sides out of that range.
PtrVals == -2 .. (MaxRecords + 1)

\* Entity records: name, attribute pointer, id, data.
GraphRecords ==
    {StrItem(NameX) \o PtrItem(a) \o IntItem(7) \o EndItem : a \in PtrVals}
    \cup {StrItem(NameX) \o PtrItem(-1) \o IntItem(7) \o PtrItem(k) \o EndItem :
            k \in PtrVals}
    \cup {TypeItem(BodyName) \o PtrItem(-1) \o IntItem(7) \o IntItem(1) \o PtrItem(0)
            \o EndItem,
          TypeItem(BodyName) \o PtrItem(0) \o IntItem(7) \o PtrItem(1) \o PtrItem(0)
            \o EndItem}

RECURSIVE GraphStreams(_)
\* The streams of exactly n entity records.
GraphStreams(n) ==
    IF n = 0 THEN {<<>>}
    ELSE {r \o s : r \in GraphRecords, s \in GraphStreams(n - 1)}

\* How a stream ends: a marker record, a marker record flush against the end
\* of the buffer, the other marker, no marker, a marker record cut behind its
\* tag byte, a byte that is no tag, a record without its end, or a record
\* with a byte that is no tag.
StreamEnds ==
    {MarkerRecord, StrItem(EndOfAcisData), StrItem(EndOfAsmData) \o EndItem, <<>>,
     <<STR>>, BadTagItem, StrItem(NameX), StrItem(NameX) \o BadTagItem}

\* Streams of up to MaxRecords entity records with a marker record behind
\* them; the shorter ones in both versions and with every end.
GraphInputs ==
    {Header(700) \o s \o MarkerRecord :
        s \in UNION {GraphStreams(n) : n \in 0..MaxRecords}}
    \cup {Header(v) \o s \o e :
            v \in Versions, s \in GraphStreams(0) \cup GraphStreams(1),
            e \in StreamEnds}

\* One item of every kind, an unknown tag, an undecodable string.
Items ==
    {IntItem(0), PtrItem(-1), PtrItem(1), DoubleItem(MinusOneDouble),
     DoubleItem(OneDouble), StrItem(NameX), StrItem(EndOfAcisData), StrItem(BadString),
     <<BOOL_TRUE>>, <<BOOL_FALSE>>, LongStrItem(1, NameX), LongStrItem(-5, <<>>),
     LongStrItem(-6, <<>>), TypeExItem(NameA), TypeItem(BodyName), VecItem(LOCATION_VEC),
     VecItem(DIRECTION_VEC), <<UNKNOWN_0x15>> \o LE32(1),
     <<UNKNOWN_0x17>> \o OneDouble, <<SUBTYPE_START>>, <<SUBTYPE_END>>, EndItem,
     BadTagItem}

\* The items that follow each other freely in a generated record.
FreeItems ==
    {IntItem(0), PtrItem(-1), DoubleItem(MinusOneDouble), StrItem(NameX),
     StrItem(EndOfAcisData), <<BOOL_TRUE>>, LongStrItem(-5, <<>>), TypeExItem(NameA),
     TypeItem(BodyName), <<SUBTYPE_START>>, <<SUBTYPE_END>>, EndItem, BadTagItem}

RECURSIVE ItemStreams(_)
\* The streams of exactly n free items.
ItemStreams(n) ==
    IF n = 0 THEN {<<>>}
    ELSE {i \o s : i \in FreeItems, s \in ItemStreams(n - 1)}

\* name, attribute pointer, id
EntityHead == StrItem(NameX) \o PtrItem(-1) \o IntItem(7)

\* Free items at the start of a record or behind an entity's head, the buffer
\* ending with them or going on with a marker record; and every item alone.
TokenInputs ==
    {Header(700) \o s : s \in UNION {ItemStreams(n) : n \in 0..MaxItems}}
    \cup {Header(v) \o EntityHead \o s \o EndItem \o MarkerRecord :
            v \in Versions, s \in UNION {ItemStreams(n) : n \in 0..MaxItems}}
    \cup {Header(700) \o p \o i \o e :
            p \in {<<>>, EntityHead}, i \in Items, e \in {<<>>, EndItem \o MarkerRecord}}

\* A buffer with a payload of every width, and every prefix of it.
FullBuffer ==
    Header(700)
    \o TypeExItem(NameA) \o TypeItem(BodyName) \o PtrItem(-1) \o IntItem(7)
    \o StrItem(NameX) \o DoubleItem(OneDouble) \o LongStrItem(1, NameX)
    \o VecItem(LOCATION_VEC) \o <<SUBTYPE_START>> \o PtrItem(1) \o <<SUBTYPE_END>>
    \o EndItem \o MarkerRecord

\* A record with two type names, of three and of two parts.
TypeNameBuffer ==
    Header(700)
    \o TypeExItem(NameA) \o TypeExItem(NameP) \o TypeItem(BodyName)
    \o TypeExItem(NameX) \o TypeItem(NameX) \o IntItem(7)
    \o EndItem \o MarkerRecord

Prefixes(buffer) == {SubSeq(buffer, 1, n) : n \in 0..Len(buffer)}

TruncatedInputs == Prefixes(FullBuffer) \cup {TypeNameBuffer}

\* Headers with one wrong tag byte, a date that does not match, a string that
\* does not decode, four different integers (a negative version among them)
\* or another signature, each with a stream behind it.
WrongTags == {[GoodTags EXCEPT ![i] = t] : i \in 1..6, t \in {0, INT}}

HeaderInputs ==
    {HeaderWith(v, GoodDate, tags) \o MarkerRecord : v \in Versions, tags \in WrongTags}
    \cup {HeaderWith(700, d, GoodTags) \o MarkerRecord : d \in {NameX, BadString}}
    \cup {CountedHeader(v) \o EntityHead \o EndItem \o MarkerRecord :
            v \in Versions \cup {-1}}

SignatureInputs ==
    {[Signature EXCEPT ![i] = 66] \o r :
        i \in 1..15, r \in {<<>>, SubSeq(Header(700), 16, Len(Header(700))) \o MarkerRecord}}
    \cup {SubSeq(Signature, 1, n) : n \in 0..14}
    \cup {<<32>> \o Header(700) \o MarkerRecord}

\* Records with fewer tokens than an entity has fields, in both versions.
ShortRecords == {<<>>, StrItem(NameX), StrItem(NameX) \o PtrItem(-1)}

\* A record that ends with a pending fragment and an open subtype, and a
\* second record with a type name and a subtype.
CarryOverBuffer ==
    Header(700)
    \o EntityHead \o TypeExItem(NameA) \o <<SUBTYPE_START>> \o EndItem
    \o TypeItem(BodyName) \o PtrItem(-1) \o IntItem(7) \o <<SUBTYPE_START>> \o EndItem
    \o MarkerRecord

\* A record with subtypes in subtypes.
NestedBuffer ==
    Header(700)
    \o EntityHead
    \o <<SUBTYPE_START, SUBTYPE_START, SUBTYPE_END, SUBTYPE_END, SUBTYPE_START,
         SUBTYPE_END>>
    \o EndItem \o MarkerRecord

\* Short records; bytes behind the marker record (no tag and a string that
\* does not decode, or one more record); a marker string with a length byte
\* beyond the end of the buffer; the two buffers above.
RecordInputs ==
    {Header(v) \o r \o EndItem \o MarkerRecord : v \in Versions, r \in ShortRecords}
    \cup {Header(700) \o EntityHead \o EndItem \o MarkerRecord \o j :
            j \in {BadTagItem \o StrItem(BadString), EntityHead \o EndItem}}
    \cup {Header(700) \o <<STR, Len(EndOfAcisData) + 4>> \o EndOfAcisData,
          CarryOverBuffer, NestedBuffer}

Buffers ==
    GraphInputs \cup TokenInputs \cup TruncatedInputs \cup HeaderInputs
    \cup SignatureInputs \cup RecordInputs

\* The argument b of parse_sab: its type and its items (the bytes object
\* itself, the chunks of a list, the characters of a str).
Arguments ==
    {[type |-> "bytes", items |-> <<buffer>>] : buffer \in Buffers}
    \cup {[type |-> "bytearray", items |-> <<Header(700) \o MarkerRecord>>],
          [type |-> "list[bytes]", items |-> <<Header(700), MarkerRecord>>],
          [type |-> "list[bytes]", items |-> <<>>],
          [type |-> "str", items |-> <<>>],
          [type |-> "str", items |-> <<NameA, NameP>>],
          [type |-> "list[str]", items |-> <<Signature>>],
          [type |-> "list[str]", items |-> <<>>],
          [type |-> "NoneType", items |-> <<>>]}

\* -------------------------------------------------------------- state
VARIABLES
    b,              \* the argument of parse_sab
    pc,             \* where parse_sab is
    error,          \* the exception parse_sab raised, "" for none
    data,           \* Decoder.data
    index,          \* Decoder.index
    header,         \* the AcisHeader of read_header, then builder.header
    values,         \* read_record: the tokens of the record
    entity_type,    \* read_record: the pending parts of the type name
    subtype_level,  \* read_record: the nesting depth
    record,         \* the record read_records yielded to build_entities
    entities,       \* the entity list: of parse_sab, then builder.entities
    bodies,         \* builder.bodies
    null_ptr,       \* the module's NULL_PTR object
    other           \* a second parse_sab call: its argument, decoder and lists

vars ==
    <<b, pc, error, data, index, header, values, entity_type, subtype_level,
      record, entities, bodies, null_ptr, other>>

\* Tokens read_record holds when the model stops a record that never ends.
MaxValues == 8

\* No second call.
NoCall == [pc |-> "none"]

Init ==
    /\ b \in Arguments
    /\ other = NoCall
    /\ pc = "start"
    /\ error = ""
    /\ data = <<>>
    /\ index = 0
    /\ header = AcisHeader
    /\ values = <<>>
    /\ entity_type = <<>>
    /\ subtype_level = 0
    /\ record = <<>>
    /\ entities = <<>>
    /\ bodies = <<>>
    /\ null_ptr = NullPtrObject

RECURSIVE Join(_)
\* b"".join(items)
Join(items) == IF Len(items) = 0 THEN <<>> ELSE Head(items) \o Join(Tail(items))

\* input_error taking every argument for bytes
input_error_accepts_all(arg) == ""

\* The exception of lines 291-296 for the argument b
input_error(arg) ==
    IF arg.type \in {"bytes", "bytearray", "list[bytes]"} THEN ""
    \* b"".join of something that is no iterable
    ELSE IF arg.type = "NoneType" THEN "TypeError"
    ELSE IF Len(arg.items) = 0 THEN ""
    ELSE "TypeError"

Raise(e) == pc' = "failed" /\ error' = e

\* parse_sab up to Decoder(data)
ParseSab ==
    /\ pc = "start"
    /\ IF input_error(b) # ""
       THEN Raise(input_error(b)) /\ UNCHANGED data
       ELSE pc' = "header" /\ data' = Join(b.items) /\ UNCHANGED error
    /\ UNCHANGED other
    /\ UNCHANGED <<b, index, header, values, entity_type, subtype_level, record,
                   entities, bodies, null_ptr>>

\* builder.header = decoder.read_header()
ReadHeader ==
    /\ pc = "header"
    /\ LET r == read_header(data, index)
       IN  /\ index' = r.index
           /\ header' = r.header
           /\ IF r.err # "" THEN Raise(r.err) ELSE pc' = "records" /\ UNCHANGED error
    /\ UNCHANGED other
    /\ UNCHANGED <<b, data, values, entity_type, subtype_level, record, entities,
                   bodies, null_ptr>>

\* read_records with the fragments and the level of the record before
ReadRecords_keeps_state ==
    /\ pc = "records"
    /\ IF has_data(data, index)
       THEN /\ pc' = "record"
            /\ values' = <<>>
            /\ UNCHANGED <<entity_type, subtype_level>>
       ELSE /\ pc' = "resolve"
            /\ UNCHANGED <<values, entity_type, subtype_level>>
    /\ UNCHANGED other
    /\ UNCHANGED <<b, error, data, index, header, record, entities, bodies, null_ptr>>

\* read_records: the head of its loop, asked for the next record
ReadRecords ==
    /\ pc = "records"
    /\ IF has_data(data, index)
       THEN /\ pc' = "record"
            /\ values' = <<>>
            /\ entity_type' = <<>>
            /\ subtype_level' = 0
       ELSE /\ pc' = "resolve"
            /\ UNCHANGED <<values, entity_type, subtype_level>>
    /\ UNCHANGED other
    /\ UNCHANGED <<b, error, data, index, header, record, entities, bodies, null_ptr>>

\* after_pass going on with the next record when a record raised ParsingError
after_pass_skips(r) ==
    IF r.err = "IndexError" THEN "resolve"
    ELSE IF r.err = "ParsingError" THEN "records"
    ELSE IF r.err # "" THEN "failed"
    ELSE IF r.ret THEN "build"
    ELSE "record"

\* after_pass letting an IndexError leave read_records
after_pass_raises_index_error(r) ==
    IF r.err # "" THEN "failed"
    ELSE IF r.ret THEN "build"
    ELSE "record"

\* What read_records and its consumer do with the outcome of read_record:
\* the record is yielded, an IndexError ends the stream, others propagate.
after_pass(r) ==
    IF r.err = "IndexError" THEN "resolve"
    ELSE IF r.err # "" THEN "failed"
    ELSE IF r.ret THEN "build"
    ELSE "record"

\* read_record: one pass of its loop.  A loop that never ends is followed
\* until the record holds MaxValues tokens.
ReadTag ==
    /\ pc = "record"
    /\ \/ Len(values) < MaxValues
       \/ ~rereads(data, index, values, entity_type, subtype_level)
    /\ LET r == read_record_pass(data, index, values, entity_type, subtype_level)
       IN  /\ index' = r.index
           /\ values' = r.values
           /\ entity_type' = r.entity_type
           /\ subtype_level' = r.subtype_level
           /\ pc' = after_pass(r)
           /\ error' = IF after_pass(r) = "failed" THEN r.err ELSE error
           /\ record' = IF after_pass(r) = "build" THEN r.values ELSE record
    /\ UNCHANGED other
    /\ UNCHANGED <<b, data, header, entities, bodies, null_ptr>>

\* build_entities: the body of its loop for the record yielded
BuildEntity ==
    /\ pc = "build"
    /\ LET r == build_entity(record, header.version.val[1])
       IN  IF r.err # ""
           THEN Raise(r.err) /\ UNCHANGED entities
           ELSE /\ entities' = Append(entities, r.entity)
                /\ pc' = IF r.last THEN "resolve" ELSE "records"
                /\ UNCHANGED error
    /\ UNCHANGED other
    /\ UNCHANGED <<b, data, index, header, values, entity_type, subtype_level, record,
                   bodies, null_ptr>>

\* resolve_pointers(entities) in parse_sab
ResolvePointers ==
    /\ pc = "resolve"
    /\ LET r == resolve_pointers(entities)
       IN  /\ entities' = r.entities
           /\ IF r.err # "" THEN Raise(r.err) ELSE pc' = "set" /\ UNCHANGED error
    /\ UNCHANGED other
    /\ UNCHANGED <<b, data, index, header, values, entity_type, subtype_level, record,
                   bodies, null_ptr>>

\* builder.set_entities(...) and the return of the builder
SetEntities ==
    /\ pc = "set"
    /\ bodies' = select_bodies(entities)
    /\ pc' = "done"
    /\ UNCHANGED other
    /\ UNCHANGED <<b, error, data, index, header, values, entity_type, subtype_level,
                   record, entities, null_ptr>>

\* A caller's second resolve_pointers(builder.entities)
ResolveAgain ==
    /\ pc = "done"
    /\ LET r == resolve_pointers(entities)
       IN  /\ entities' = r.entities
           /\ error' = r.err
    /\ pc' = "again"
    /\ UNCHANGED other
    /\ UNCHANGED <<b, data, index, header, values, entity_type, subtype_level, record,
                   bodies, null_ptr>>

Next ==
    \/ ParseSab
    \/ ReadHeader
    \/ ReadRecords
    \/ ReadTag
    \/ BuildEntity
    \/ ResolvePointers
    \/ SetEntities
    \/ ResolveAgain

Spec == Init /\ [][Next]_vars

\* ------------------------------------------------- two calls at a time
\* A call of parse_sab as one value: its argument, its Decoder (data, index),
\* the locals of read_record, the record yielded, the entity list and the
\* builder's header and bodies.  Each call has its own (lines 26-27, 100-102,
\* 297-300).
StartCall(arg) ==
    [b |-> arg, pc |-> "start", error |-> "", data |-> <<>>, index |-> 0,
     header |-> AcisHeader, values |-> <<>>, entity_type |-> <<>>,
     subtype_level |-> 0, record |-> <<>>, entities |-> <<>>, bodies |-> <<>>]

\* call_step with one cursor for all decoders: the cursor of the first call
call_step_shares_cursor(c) ==
    IF c.pc = "start"
    THEN IF input_error(c.b) # ""
         THEN [c EXCEPT !.pc = "failed", !.error = input_error(c.b)]
         ELSE [c EXCEPT !.pc = "header", !.data = Join(c.b.items)]
    ELSE IF c.pc = "header"
    THEN LET r == read_header(c.data, index)
         IN  [c EXCEPT !.index = r.index, !.header = r.header,
                       !.pc = IF r.err # "" THEN "failed" ELSE "records",
                       !.error = r.err]
    ELSE IF c.pc = "records"
    THEN IF has_data(c.data, index)
         THEN [c EXCEPT !.pc = "record", !.values = <<>>, !.entity_type = <<>>,
                        !.subtype_level = 0]
         ELSE [c EXCEPT !.pc = "resolve"]
    ELSE IF c.pc = "record"
    THEN LET r == read_record_pass(c.data, index, c.values, c.entity_type,
                                   c.subtype_level)
         IN  [c EXCEPT !.index = r.index, !.values = r.values,
                       !.entity_type = r.entity_type,
                       !.subtype_level = r.subtype_level,
                       !.pc = after_pass(r),
                       !.error = IF after_pass(r) = "failed" THEN r.err ELSE c.error,
                       !.record = IF after_pass(r) = "build" THEN r.values ELSE c.record]
    ELSE IF c.pc = "build"
    THEN LET r == build_entity(c.record, c.header.version.val[1])
         IN  IF r.err # "" THEN [c EXCEPT !.pc = "failed", !.error = r.err]
             ELSE [c EXCEPT !.entities = Append(c.entities, r.entity),
                            !.pc = IF r.last THEN "resolve" ELSE "records"]
    ELSE IF c.pc = "resolve"
    THEN LET r == resolve_pointers(c.entities)
         IN  [c EXCEPT !.entities = r.entities,
                       !.pc = IF r.err # "" THEN "failed" ELSE "set",
                       !.error = r.err]
    ELSE IF c.pc = "set"
    THEN [c EXCEPT !.bodies = select_bodies(c.entities), !.pc = "done"]
    ELSE c

\* The step of parse_sab that a call in state c takes next: the actions
\* ParseSab to SetEntities on the call's own state.
call_step(c) ==
    IF c.pc = "start"
    THEN IF input_error(c.b) # ""
         THEN [c EXCEPT !.pc = "failed", !.error = input_error(c.b)]
         ELSE [c EXCEPT !.pc = "header", !.data = Join(c.b.items)]
    ELSE IF c.pc = "header"
    THEN LET r == read_header(c.data, c.index)
         IN  [c EXCEPT !.index = r.index, !.header = r.header,
                       !.pc = IF r.err # "" THEN "failed" ELSE "records",
                       !.error = r.err]
    ELSE IF c.pc = "records"
    THEN IF has_data(c.data, c.index)
         THEN [c EXCEPT !.pc = "record", !.values = <<>>, !.entity_type = <<>>,
                        !.subtype_level = 0]
         ELSE [c EXCEPT !.pc = "resolve"]
    ELSE IF c.pc = "record"
    THEN LET r == read_record_pass(c.data, c.index, c.values, c.entity_type,
                                   c.subtype_level)
         IN  [c EXCEPT !.index = r.index, !.values = r.values,
                       !.entity_type = r.entity_type,
                       !.subtype_level = r.subtype_level,
                       !.pc = after_pass(r),
                       !.error = IF after_pass(r) = "failed" THEN r.err ELSE c.error,
                       !.record = IF after_pass(r) = "build" THEN r.values ELSE c.record]
    ELSE IF c.pc = "build"
    THEN LET r == build_entity(c.record, c.header.version.val[1])
         IN  IF r.err # "" THEN [c EXCEPT !.pc = "failed", !.error = r.err]
             ELSE [c EXCEPT !.entities = Append(c.entities, r.entity),
                            !.pc = IF r.last THEN "resolve" ELSE "records"]
    ELSE IF c.pc = "resolve"
    THEN LET r == resolve_pointers(c.entities)
         IN  [c EXCEPT !.entities = r.entities,
                       !.pc = IF r.err # "" THEN "failed" ELSE "set",
                       !.error = r.err]
    ELSE IF c.pc = "set"
    THEN [c EXCEPT !.bodies = select_bodies(c.entities), !.pc = "done"]
    ELSE c

\* The second call takes a step.  No statement of parse_sab assigns to the
\* NULL_PTR object or to the other call's objects.
OtherStep ==
    /\ other.pc \in {"start", "header", "records", "record", "build", "resolve", "set"}
    /\ other' = call_step(other)
    /\ UNCHANGED <<b, pc, error, data, index, header, values, entity_type,
                   subtype_level, record, entities, bodies, null_ptr>>

\* The arguments of the two calls: a stream of two entities that point at
\* each other and at nothing, the buffer with every kind of token, a header
\* with a marker alone, a buffer that is cut in a record, another signature,
\* and a text string.
ConcurrentArguments ==
    {[type |-> "bytes", items |-> <<buffer>>] :
        buffer \in {Header(700)
                      \o StrItem(NameX) \o PtrItem(-1) \o IntItem(7) \o PtrItem(1) \o EndItem
                      \o TypeItem(BodyName) \o PtrItem(0) \o IntItem(7) \o PtrItem(1)
                      \o PtrItem(0) \o EndItem \o MarkerRecord,
                    FullBuffer,
                    Header(699) \o MarkerRecord,
                    Header(700) \o EntityHead,
                    <<32>> \o Header(700) \o MarkerRecord}}
    \cup {[type |-> "str", items |-> <<NameA, NameP>>]}

ConcurrentInit ==
    /\ b \in ConcurrentArguments
    /\ other \in {StartCall(arg) : arg \in ConcurrentArguments}
    /\ pc = "start"
    /\ error = ""
    /\ data = <<>>
    /\ index = 0
    /\ header = AcisHeader
    /\ values = <<>>
    /\ entity_type = <<>>
    /\ subtype_level = 0
    /\ record = <<>>
    /\ entities = <<>>
    /\ bodies = <<>>
    /\ null_ptr = NullPtrObject

ConcurrentNext ==
    \/ Next
    \/ OtherStep

\* Two calls of parse_sab, their steps interleaved in every way.
Concurrent == ConcurrentInit /\ [][ConcurrentNext]_vars

\* ================================================================ claims
\* The argument is a byte buffer (or joins to one).
IsBuffer == input_error(b) = ""
\* The buffer parse_sab decodes.
Buffer == Join(b.items)
\* The first 15 bytes of the buffer, fewer when it is shorter.
First15 == SubSeq(Buffer, 1, Min(15, Len(Buffer)))
\* parse_sab has returned its builder.
Returned == pc = "done"
\* The positions (1-based) of the entities and of an entity's data tokens.
EntityIds == 1..Len(entities)
TokenIds(e) == 1..Len(entities[e].data)
\* A reference to the Null sentinel or to a member of the entity list.
IsReference(v) ==
    \/ v = NullRef
    \/ v.kind = "entity" /\ v.val[1] \in 0..(Len(entities) - 1)
DefinedTags ==
    {INT, DOUBLE, STR, BOOL_TRUE, BOOL_FALSE, POINTER, ENTITY_TYPE, ENTITY_TYPE_EX,
     SUBTYPE_START, SUBTYPE_END, RECORD_END, LONG_STR, LOCATION_VEC, DIRECTION_VEC,
     UNKNOWN_0x15, UNKNOWN_0x17}

\* C1: a buffer whose first 15 bytes are not "ACIS BinaryFile" (a shorter and
\* the empty buffer too) makes parse_sab fail with ParsingError whatever
\* follows, before any header field is read: once the header is read the call
\* has failed, the cursor is 0 and no header attribute is assigned.
C1_BadSignatureFails ==
    (IsBuffer /\ First15 # Signature /\ pc \notin {"start", "header"})
        => /\ pc = "failed"
           /\ error = "ParsingError"
           /\ index = 0
           /\ \A f \in HeaderAttributes : header[f] = Unassigned

\* C1 witness: the signature differs in its last byte only, a complete header
\* and stream follow, and the call has failed.
C1_Witness ==
    /\ pc = "failed"
    /\ Len(Buffer) > Len(Header(700))
    /\ SubSeq(Buffer, 1, 14) = SubSeq(Signature, 1, 14)
    /\ Buffer[15] # Signature[15]

\* C2: in every builder parse_sab returns, every data token tagged POINTER
\* and every attributes field refers to the Null sentinel or to a member of
\* the same entity list (no POINTER token keeps an integer), and every
\* attr_ptr is -1.
C2_GraphResolved ==
    Returned =>
        \A e \in EntityIds :
            /\ IsReference(entities[e].attributes)
            /\ entities[e].attr_ptr = PyInt(-1)
            /\ \A t \in TokenIds(e) :
                   entities[e].data[t].tag = POINTER
                       => IsReference(entities[e].data[t].value)

\* C2 witness: a returned builder with an entity whose attributes and whose
\* data pointer both refer to entities of the list.
C2_Witness ==
    /\ Returned
    /\ \E e \in EntityIds :
           /\ entities[e].attributes.kind = "entity"
           /\ \E t \in TokenIds(e) :
                  /\ entities[e].data[t].tag = POINTER
                  /\ entities[e].data[t].value.kind = "entity"

\* The raw value is -1: the integer, or the double that compares equal to it.
IsMinusOne(v) == v = PyInt(-1) \/ v = PyFloat(MinusOneDouble)

\* The step in which resolve_pointers runs to its end in parse_sab.
Resolved == pc = "resolve" /\ pc' = "set"

\* C3: resolve_pointers makes a data POINTER token, or an attributes field,
\* refer to the Null sentinel exactly when its raw value was -1.
C3_NullIffMinusOne ==
    [][Resolved =>
        \A e \in EntityIds :
            /\ (entities'[e].attributes = NullRef) <=> IsMinusOne(entities[e].attr_ptr)
            /\ \A t \in TokenIds(e) :
                   entities[e].data[t].tag = POINTER
                       => ((entities'[e].data[t].value = NullRef)
                              <=> IsMinusOne(entities[e].data[t].value))]_vars

\* C3 witness: a returned builder in which one entity has a null attributes
\* reference and a null data pointer (both raw -1), and another entity an
\* attributes reference and a data pointer to entities of the list.
C3_Witness ==
    /\ Returned
    /\ \E e \in EntityIds :
           /\ entities[e].attributes = NullRef
           /\ entities[e].name = PyStr(NameX)
           /\ \E t \in TokenIds(e) : entities[e].data[t] = Token(POINTER, NullRef)
    /\ \E e \in EntityIds :
           /\ entities[e].attributes = EntityRef(0)
           /\ \E t \in TokenIds(e) : entities[e].data[t] = Token(POINTER, EntityRef(1))

\* A raw integer index into the entity list.
IsIndex(v) == v.kind = "int" /\ v.val[1] \in 0..(Len(entities) - 1)

\* C4: the entity list is built in record order (each record's entity is
\* appended behind the entities of the earlier records), and resolve_pointers
\* turns every raw index k, 0 <= k < N, of an attribute pointer or a data
\* POINTER token into a reference to entities[k], be it backward, forward
\* or the entity itself.
C4_IndexResolvesToEntity ==
    [][/\ (pc = "build" /\ pc' # "failed")
           => /\ Len(entities') = Len(entities) + 1
              /\ SubSeq(entities', 1, Len(entities)) = entities
              /\ entities'[Len(entities')].name = record[1].value
       /\ Resolved =>
           \A e \in EntityIds :
               /\ IsIndex(entities[e].attr_ptr)
                      => entities'[e].attributes = EntityRef(entities[e].attr_ptr.val[1])
               /\ \A t \in TokenIds(e) :
                      (entities[e].data[t].tag = POINTER
                       /\ IsIndex(entities[e].data[t].value))
                          => entities'[e].data[t]
                               = Token(POINTER,
                                       EntityRef(entities[e].data[t].value.val[1]))]_vars

\* C4 witness: the two-node cycle: entity 0's data points at entity 1 and
\* entity 1's data at entity 0.
C4_Witness ==
    /\ Returned
    /\ Len(entities) >= 2
    /\ \E t \in TokenIds(1) : entities[1].data[t] = Token(POINTER, EntityRef(1))
    /\ \E t \in TokenIds(2) : entities[2].data[t] = Token(POINTER, EntityRef(0))

\* The step of a second resolve_pointers call on the resolved list.
SecondCall == pc = "done" /\ pc' = "again"
NoPointerToken ==
    \A e \in EntityIds : \A t \in TokenIds(e) : entities[e].data[t].tag # POINTER
AllAttributesNull == \A e \in EntityIds : entities[e].attributes = NullRef

\* C5 as claimed: a second call of resolve_pointers succeeds and leaves
\* every entity as the first call left it.
C5_Idempotent ==
    [][SecondCall => (error' = "" /\ entities' = entities)]_vars

\* C5 amended: a second call of resolve_pointers is a no-op exactly when
\* the list holds no data POINTER token and every attributes reference is
\* the Null sentinel.  It raises TypeError exactly when a data POINTER token
\* exists; when it succeeds it changes nothing but the attributes
\* references, which all become the Null sentinel.
C5_SecondCallResets ==
    [][SecondCall =>
        /\ (error' = "TypeError") <=> ~NoPointerToken
        /\ (error' = "") <=> NoPointerToken
        /\ (error' = "" /\ entities' = entities)
               <=> (NoPointerToken /\ AllAttributesNull)
        /\ error' = ""
               => entities'
                    = [e \in EntityIds |-> [entities[e] EXCEPT !.attributes = NullRef]]
      ]_vars

\* C5 witness: the second call on a list with a resolved attributes reference
\* and a resolved data pointer has raised TypeError.
C5_Witness ==
    /\ pc = "again"
    /\ error = "TypeError"
    /\ \E e \in EntityIds :
           \E t \in TokenIds(e) : entities[e].data[t].value.kind = "entity"

\* C6: builder.bodies is the subsequence of builder.entities named "body":
\* bodies refers to entities of the list in increasing position, each named
\* "body", and every entity named "body" is among them.
C6_BodiesAreTheBodyEntities ==
    pc \in {"done", "again"} =>
        /\ \A i \in 1..Len(bodies) :
               /\ bodies[i].kind = "entity"
               /\ bodies[i].val[1] \in 0..(Len(entities) - 1)
               /\ entities[bodies[i].val[1] + 1].name = PyStr(BodyName)
        /\ \A i, j \in 1..Len(bodies) : i < j => bodies[i].val[1] < bodies[j].val[1]
        /\ \A e \in EntityIds :
               entities[e].name = PyStr(BodyName)
                   => \E i \in 1..Len(bodies) : bodies[i] = EntityRef(e - 1)

\* C6 witness: a returned builder whose second entity is the only body.
C6_Witness ==
    /\ Returned
    /\ Len(entities) = 3
    /\ bodies = <<EntityRef(1)>>
    /\ entities[1].name = PyStr(NameX)

\* The minimal buffer: a valid header, then STR("End-of-ACIS-data") RECORD_END.
MinimalBuffer == Header(700) \o StrItem(EndOfAcisData) \o EndItem

\* C7: on the minimal buffer parse_sab does not fail, and the builder it
\* returns holds exactly one entity, the terminal marker (the marker's name,
\* id -1, no data, attributes the Null sentinel), and no body.
C7_MinimalBuffer ==
    (b.type = "bytes" /\ Buffer = MinimalBuffer) =>
        /\ pc # "failed"
        /\ pc = "record" => Len(values) < MaxValues
        /\ Returned =>
               /\ entities
                    = <<[name |-> PyStr(EndOfAcisData), attr_ptr |-> PyInt(-1),
                         id |-> PyInt(-1), data |-> <<>>, attributes |-> NullRef]>>
               /\ bodies = <<>>

\* C7 witness: parse_sab has returned for the minimal buffer.
C7_Witness == b.type = "bytes" /\ Buffer = MinimalBuffer /\ Returned

\* A pass of read_record that finds the buffer exhausted in a record that
\* has a first token and whose first token is no marker: no byte is left at
\* the tag, or the payload reaches beyond the last byte.
ExhaustedInRecord ==
    /\ pc = "record"
    /\ Len(values) > 0
    /\ values[1].value \notin {PyStr(EndOfAcisData), PyStr(EndOfAsmData)}
    /\ index >= Len(data) \/ index' > Len(data)
    /\ pc' # "record"

\* C8 as claimed: a buffer exhausted in the middle of a record whose first
\* token is no marker makes parse_sab fail with ParsingError.
C8_ExhaustedRecordFails ==
    [][ExhaustedInRecord => (pc' = "failed" /\ error' = "ParsingError")]_vars

\* A pass of read_record at a byte that is no tag.
AtUnknownTag ==
    /\ pc = "record"
    /\ index \in 0..(Len(data) - 1)
    /\ data[index + 1] \notin DefinedTags

\* C9 as claimed: a tag byte outside the tag set, at any position of the
\* record, also as its first byte, makes parse_sab fail with ParsingError.
C9_UnknownTagFails ==
    [][AtUnknownTag => (pc' = "failed" /\ error' = "ParsingError")]_vars

\* C10 as claimed: every failure of parse_sab on a byte buffer is a
\* ParsingError.
C10_OnlyParsingError ==
    (b.type \in {"bytes", "bytearray"} /\ pc = "failed") => error = "ParsingError"

\* A pass of read_record that raises ParsingError: at a byte that is no tag,
\* in a record that has a token; or at the end of the data, in a record that
\* has no token or whose first token is no marker.
UnknownTagInRecord == AtUnknownTag /\ Len(values) > 0
PrematureEnd ==
    /\ pc = "record"
    /\ index >= Len(data)
    /\ ~(Len(values) > 0 /\ values[1].value \in {PyStr(EndOfAcisData), PyStr(EndOfAsmData)})

\* C11: a ParsingError raised while a record is read ends parse_sab with
\* that error: no builder is returned (no bodies are set, the entity list of
\* the earlier records stays where it is and is not resolved), and a call
\* that has failed does nothing more: no later record is read.
C11_ParsingErrorIsFatal ==
    [][/\ (UnknownTagInRecord \/ PrematureEnd)
           => /\ pc' = "failed"
              /\ error' = "ParsingError"
              /\ entities' = entities
              /\ bodies' = <<>>
       /\ pc # "failed"]_vars

\* C11 witness: parse_sab has failed with ParsingError in the second record,
\* the entity of the first record built.
C11_Witness ==
    /\ pc = "failed"
    /\ error = "ParsingError"
    /\ Len(entities) = 1
    /\ Len(values) = 1

\* The layout of the header in the buffer, for the claims about read_header.
\* The tag in front of the i-th field (the fields 5 to 10 have one).
ExpectedTag(i) == IF i <= 7 THEN STR ELSE DOUBLE

RECURSIVE FieldOffset(_)
\* The offset of the i-th field's first byte; 11 is the end of the header.
FieldOffset(i) ==
    IF i = 1 THEN 15
    ELSE IF i <= 5 THEN FieldOffset(i - 1) + 4
    ELSE IF i <= 8 THEN FieldOffset(i - 1) + 2 + Buffer[FieldOffset(i - 1) + 2]
    ELSE FieldOffset(i - 1) + 9

\* The bytes of the i-th field: an integer, a text behind tag and length (as
\* much of it as the buffer holds), a double behind its tag.
FieldInt(i) == SubSeq(Buffer, FieldOffset(i) + 1, FieldOffset(i) + 4)
FieldText(i) ==
    SubSeq(Buffer, FieldOffset(i) + 3,
           Min(FieldOffset(i) + 2 + Buffer[FieldOffset(i) + 2], Len(Buffer)))
FieldDouble(i) == SubSeq(Buffer, FieldOffset(i) + 2, FieldOffset(i) + 9)

\* The i-th field is in the buffer as read_header expects it.
FieldInPlace(i) ==
    IF i <= 4 THEN FieldOffset(i) + 4 <= Len(Buffer)
    ELSE IF i <= 7
    THEN /\ FieldOffset(i) + 2 <= Len(Buffer)
         /\ Buffer[FieldOffset(i) + 1] = STR
         /\ \A k \in 1..Len(FieldText(i)) : FieldText(i)[k] < 128
         /\ i = 7 => FieldText(i) = GoodDate
    ELSE /\ FieldOffset(i) + 9 <= Len(Buffer)
         /\ Buffer[FieldOffset(i) + 1] = DOUBLE

RECURSIVE FieldsInPlace(_)
\* The signature and the fields 1 to i are in place.
FieldsInPlace(i) ==
    IF i = 0 THEN IsBuffer /\ First15 = Signature
    ELSE FieldsInPlace(i - 1) /\ FieldInPlace(i)

\* C12: when parse_sab returns, header.version is the signed little-endian
\* integer of the bytes 15..18 of the buffer, n_records, n_entities and flags
\* are the three integers behind it, product_id, acis_version and
\* creation_date the three tagged strings behind those, units_in_mm the
\* tagged double behind the date; read_header leaves the cursor behind the
\* two tolerances that follow.
C12_HeaderLayout ==
    /\ (pc = "records" /\ Len(entities) = 0) => index = FieldOffset(11)
    /\ Returned =>
           /\ header.version.kind = "int"
           /\ SubSeq(Buffer, 16, 19) = LE32(header.version.val[1])
           /\ FieldInt(2) = LE32(header.n_records.val[1])
           /\ FieldInt(3) = LE32(header.n_entities.val[1])
           /\ FieldInt(4) = LE32(header.flags.val[1])
           /\ header.product_id = PyStr(FieldText(5))
           /\ header.acis_version = PyStr(FieldText(6))
           /\ header.creation_date = [kind |-> "datetime", val |-> FieldText(7)]
           /\ header.units_in_mm = PyFloat(FieldDouble(8))
           /\ Buffer[FieldOffset(9) + 1] = DOUBLE
           /\ Buffer[FieldOffset(10) + 1] = DOUBLE

\* C12 witness: a builder returned for a header with the version -1 and the
\* integers 1, 2, 3 behind it.
C12_Witness ==
    /\ Returned
    /\ header.version = PyInt(-1)
    /\ header.n_records = PyInt(1)
    /\ header.n_entities = PyInt(2)
    /\ header.flags = PyInt(3)
    /\ header.product_id = PyStr(NameP)
    /\ header.acis_version = PyStr(NameA)

\* C13: when the fields before the i-th are in place and the byte at the
\* place of its tag is not the expected tag, read_header fails with
\* ParsingError, the cursor one byte behind that byte, and neither this
\* field nor a later one is assigned; when every field is in place the cursor
\* ends behind the header, one byte spent on each tag.
C13_TaggedHeaderReads ==
    [][pc = "header" =>
        /\ \A i \in 5..10 :
               (/\ FieldsInPlace(i - 1)
                /\ FieldOffset(i) < Len(Buffer)
                /\ Buffer[FieldOffset(i) + 1] # ExpectedTag(i))
                   => /\ pc' = "failed"
                      /\ error' = "ParsingError"
                      /\ index' = FieldOffset(i) + 1
                      /\ \A j \in i..8 : header'[HeaderFields[j]] = Unassigned
                      /\ \A j \in 1..(i - 1) :
                             j <= 8 => header'[HeaderFields[j]] # Unassigned
        /\ FieldsInPlace(10) => (pc' = "records" /\ index' = FieldOffset(11))
      ]_vars

\* C13 witness: read_header has failed at the tag of the second double, the
\* fields before it assigned.
C13_Witness ==
    /\ pc = "failed"
    /\ error = "ParsingError"
    /\ FieldsInPlace(8)
    /\ index = FieldOffset(9) + 1
    /\ Buffer[index] # DOUBLE
    /\ header.units_in_mm = PyFloat(OneDouble)

\* C14 as claimed: read_record never reads the same tag byte without end, so
\* that parse_sab terminates: a pass of its loop that is followed by another
\* pass leaves the cursor elsewhere.  (What a pass at a tag does depends on
\* the buffer and the cursor alone: a pass that leaves the cursor on its own
\* tag byte is repeated for ever.)
C14_NoPassRepeats ==
    [][(pc = "record" /\ pc' = "record") => index' # index]_vars

\* The argument is of a type parse_sab is declared for.
IsBufferType == b.type \in {"bytes", "bytearray", "list[bytes]"}

FirstIsMarker ==
    Len(values) > 0 /\ values[1].value \in {PyStr(EndOfAcisData), PyStr(EndOfAsmData)}

\* C16: a pass of read_record that finds no data left returns the tokens
\* read so far as the record when the first of them is a data-end marker, and
\* raises ParsingError otherwise, also when no token has been read.
C16_EndOfDataAtTag ==
    [][(pc = "record" /\ index >= Len(data)) =>
        IF FirstIsMarker
        THEN pc' = "build" /\ record' = values /\ error' = ""
        ELSE pc' = "failed" /\ error' = "ParsingError" /\ record' = record]_vars

\* C16 witness: read_record has returned a marker record that has no
\* RECORD_END: the data ends with the marker string.
C16_Witness ==
    /\ pc = "build"
    /\ record = <<Token(STR, PyStr(EndOfAcisData))>>
    /\ index = Len(data)
    /\ data[Len(data)] # RECORD_END

\* A pass of read_record that raises IndexError: the data ends behind the tag
\* of a short string, so that no length byte is left; or the first byte of the
\* record is no tag (the message of the error reads values[0]).
RaisesIndexError ==
    \/ /\ pc = "record"
       /\ index = Len(data) - 1
       /\ data[index + 1] \in {STR, ENTITY_TYPE, ENTITY_TYPE_EX}
    \/ AtUnknownTag /\ Len(values) = 0

\* C17: an IndexError raised while a record is read ends the stream of
\* records without an error: the entities of the records read before are
\* kept, the record being read is dropped, and once the stream has ended no
\* record is read or built any more.
C17_IndexErrorEndsStream ==
    [][/\ RaisesIndexError
           => /\ pc' = "resolve"
              /\ error' = ""
              /\ entities' = entities
              /\ record' = record
       /\ pc \in {"resolve", "set", "done", "again"}
           => pc' \notin {"records", "record", "build"}]_vars

\* C17 witness: a builder returned with the entity of the first record, the
\* data ending with the STR tag of a second record.
C17_Witness ==
    /\ Returned
    /\ Len(entities) = 1
    /\ index = Len(data) + 1
    /\ data[Len(data)] = STR

\* C18 as claimed: the cursor never moves backward and is never negative.
C18_ForwardOnly == [][index' >= index /\ index' >= 0]_vars

\* C19 as claimed: subtype_level is never negative.
C19_LevelNotNegative == subtype_level >= 0

\* A pass of read_record at tag t whose short string (length byte, text) is
\* in the buffer and decodes.
TagText ==
    SubSeq(data, index + 3, Min(index + 2 + data[index + 2], Len(data)))
AtTextTag(t) ==
    /\ pc = "record"
    /\ index \in 0..(Len(data) - 2)
    /\ data[index + 1] = t
    /\ \A k \in 1..Len(TagText) : TagText[k] < 128

RECURSIVE NameOf(_, _)
\* The fragments and the last part, with a dash between each two.
NameOf(fragments, last) ==
    IF fragments = <<>> THEN last
    ELSE Head(fragments) \o <<45>> \o NameOf(Tail(fragments), last)

\* C20: a pass at ENTITY_TYPE_EX appends its string to the fragments and
\* adds no token; a pass at ENTITY_TYPE adds one ENTITY_TYPE token, its value
\* the fragments and then its own string with a dash between each two, and
\* empties the fragments; no other pass changes the fragments, and a record
\* starts with none.
C20_TypeNameAssembly ==
    [][/\ AtTextTag(ENTITY_TYPE_EX)
           => /\ pc' = "record"
              /\ values' = values
              /\ entity_type' = Append(entity_type, TagText)
       /\ AtTextTag(ENTITY_TYPE)
           => /\ pc' = "record"
              /\ values'
                   = Append(values,
                            Token(ENTITY_TYPE, PyStr(NameOf(entity_type, TagText))))
              /\ entity_type' = <<>>
       /\ (pc = "records" /\ pc' = "record") => entity_type' = <<>>
       /\ (pc = "record" /\ ~AtTextTag(ENTITY_TYPE_EX) /\ ~AtTextTag(ENTITY_TYPE))
           => entity_type' = entity_type
       /\ pc # "record" => entity_type' = <<>> \/ entity_type' = entity_type
      ]_vars

\* C20 witness: a record with the type names "a-p-body" and "x-x".
C20_Witness ==
    /\ pc = "build"
    /\ Len(record) >= 2
    /\ record[1] = Token(ENTITY_TYPE, PyStr(<<97, 45, 112, 45, 98, 111, 100, 121>>))
    /\ record[2] = Token(ENTITY_TYPE, PyStr(<<120, 45, 120>>))

\* The record yielded to build_entities is a marker record.
IsMarkerRecord ==
    Len(record) > 0 /\ record[1].value \in {PyStr(EndOfAcisData), PyStr(EndOfAsmData)}
\* The tokens an entity of the header's version needs: name, attribute, id.
TokensNeeded == IF header.version.val[1] >= 700 THEN 3 ELSE 2
\* The entity build_entities has appended in this step.
Built == entities'[Len(entities')]

\* C21: for a record that is no marker record and has the tokens an entity
\* needs, build_entities appends one entity: its name is the value of the
\* first token, its attr_ptr the value of the second; from version 700 on its
\* id is the value of the third token and its data the tokens behind it, in
\* their order; below 700 its id is -1 and its data the tokens behind the
\* second.  The data tokens are the record's tokens as they are: a POINTER
\* token still holds its integer.
C21_EntityLayout ==
    [][(pc = "build" /\ ~IsMarkerRecord /\ Len(record) >= TokensNeeded) =>
        /\ pc' = "records"
        /\ entities' = Append(entities, Built)
        /\ Built.name = record[1].value
        /\ Built.attr_ptr = record[2].value
        /\ Built.attributes = None
        /\ Built.id = IF TokensNeeded = 3 THEN record[3].value ELSE PyInt(-1)
        /\ Len(Built.data) = Len(record) - TokensNeeded
        /\ \A t \in 1..Len(Built.data) : Built.data[t] = record[t + TokensNeeded]
        /\ \A t \in 1..Len(Built.data) :
               Built.data[t].tag = POINTER => Built.data[t].value.kind = "int"
      ]_vars

\* C21 witness: version 699: the entity has the id -1, and the record's third
\* token and the POINTER token behind it, its integer unresolved, are its data.
C21_Witness ==
    /\ pc = "records"
    /\ header.version = PyInt(699)
    /\ Len(entities) = 1
    /\ entities[1].id = PyInt(-1)
    /\ entities[1].data = <<Token(INT, PyInt(7)), Token(POINTER, PyInt(1))>>

IsMarkerEntity(e) == e.name \in {PyStr(EndOfAcisData), PyStr(EndOfAsmData)}
\* A marker entity is the last of the list (so that there is one at most).
MarkerIsLast ==
    \A i \in EntityIds : IsMarkerEntity(entities[i]) => i = Len(entities)

\* C22: for a marker record build_entities appends one entity that has the
\* marker's name and nothing else, and the stream of records ends there: from
\* then on the cursor stays where it is, no record is read or built and the
\* entity list keeps its length, whatever bytes follow; a marker entity is the
\* last of the list.
C22_MarkerEndsDecoding ==
    [][/\ (pc = "build" /\ IsMarkerRecord)
           => /\ pc' = "resolve"
              /\ error' = ""
              /\ entities' = Append(entities, SabEntity(record[1].value, PyInt(-1),
                                                        PyInt(-1), <<>>))
       /\ pc \in {"resolve", "set", "done"}
           => /\ index' = index
              /\ Len(entities') = Len(entities)
              /\ pc' \notin {"records", "record", "build"}
       /\ MarkerIsLast
       /\ MarkerIsLast']_vars

\* C22 witness: a builder returned with an entity and the marker entity,
\* bytes of the buffer behind the marker record left unread.
C22_Witness ==
    /\ Returned
    /\ Len(entities) = 2
    /\ IsMarkerEntity(entities[2])
    /\ index < Len(data)

\* A step of resolve_pointers: in parse_sab, or a caller's second call.
Resolves == pc \in {"resolve", "done"}

\* C23: resolve_pointers leaves the list's length and order, every entity's
\* name and id, the number and the tags of its data tokens and the value of
\* every token that is no POINTER token as they are (also when it raises).
C23_ResolveFrame ==
    [][Resolves =>
        /\ Len(entities') = Len(entities)
        /\ \A e \in EntityIds :
               /\ entities'[e].name = entities[e].name
               /\ entities'[e].id = entities[e].id
               /\ Len(entities'[e].data) = Len(entities[e].data)
               /\ \A t \in TokenIds(e) :
                      /\ entities'[e].data[t].tag = entities[e].data[t].tag
                      /\ entities[e].data[t].tag # POINTER
                             => entities'[e].data[t] = entities[e].data[t]
      ]_vars

\* C23 witness: a resolved entity with the id 7 whose data are an INT token
\* and a POINTER token.
C23_Witness ==
    /\ Returned
    /\ \E e \in EntityIds :
           /\ entities[e].id = PyInt(7)
           /\ entities[e].data = <<Token(INT, PyInt(1)), Token(POINTER, EntityRef(0))>>

\* A pass of read_record at tag t.
AtTag(t) == pc = "record" /\ index \in 0..(Len(data) - 1) /\ data[index + 1] = t

\* A pass at a short string whose length byte says more bytes than are left.
DeclaredBeyondEnd ==
    /\ pc = "record"
    /\ index \in 0..(Len(data) - 2)
    /\ data[index + 1] \in {STR, ENTITY_TYPE, ENTITY_TYPE_EX}
    /\ index + 2 + data[index + 2] > Len(data)

\* C25 as claimed: a string whose declared length is beyond the bytes left
\* is not decoded shortened: the pass fails, no token and no fragment comes
\* of it.
C25_ReadBytesExact ==
    [][DeclaredBeyondEnd
        => (pc' # "record" /\ values' = values /\ entity_type' = entity_type)]_vars

RECURSIVE Depth(_, _)
\* The subtypes open behind the k-th token of rec: the SUBTYPE_START tokens
\* less the SUBTYPE_END tokens among the first k.
Depth(rec, k) ==
    IF k = 0 THEN 0
    ELSE Depth(rec, k - 1)
         + (IF rec[k].tag = SUBTYPE_START THEN 1
            ELSE IF rec[k].tag = SUBTYPE_END THEN -1 ELSE 0)

\* The SUBTYPE_END at j closes the SUBTYPE_START at i.
Closes(rec, i, j) ==
    /\ i < j
    /\ rec[i].tag = SUBTYPE_START
    /\ rec[j].tag = SUBTYPE_END
    /\ Depth(rec, j) = Depth(rec, i) - 1
    /\ \A m \in (i + 1)..(j - 1) : Depth(rec, m) >= Depth(rec, i)

ProperlyNested(rec) == \A k \in 1..Len(rec) : Depth(rec, k) >= 0

\* C26: a pass at SUBTYPE_START counts the level up and appends the new
\* level; a pass at SUBTYPE_END appends the level and counts it down.  In a
\* record returned, a SUBTYPE_START token holds the number of subtypes open
\* with it and a SUBTYPE_END token the number open before it; when the
\* subtypes are properly nested a SUBTYPE_END holds the value of the
\* SUBTYPE_START it closes, and an outermost SUBTYPE_START holds 1.
C26_SubtypeLevels ==
    [][/\ AtTag(SUBTYPE_START)
           => /\ values' = Append(values, Token(SUBTYPE_START, PyInt(subtype_level + 1)))
              /\ subtype_level' = subtype_level + 1
       /\ AtTag(SUBTYPE_END)
           => /\ values' = Append(values, Token(SUBTYPE_END, PyInt(subtype_level)))
              /\ subtype_level' = subtype_level - 1
       /\ pc = "build"
           => /\ \A k \in 1..Len(record) :
                     /\ record[k].tag = SUBTYPE_START
                            => record[k].value = PyInt(Depth(record, k))
                     /\ record[k].tag = SUBTYPE_END
                            => record[k].value = PyInt(Depth(record, k) + 1)
              /\ ProperlyNested(record)
                     => \A i, j \in 1..Len(record) :
                            /\ Closes(record, i, j) => record[j].value = record[i].value
                            /\ (record[i].tag = SUBTYPE_START
                                /\ Depth(record, i) = 1)
                                   => record[i].value = PyInt(1)
      ]_vars

\* C26 witness: a record with subtypes in a subtype: the levels of its
\* tokens are 1, 2, 2, 1, 1, 1.
C26_Witness ==
    /\ pc = "build"
    /\ Len(record) = 9
    /\ [k \in 1..6 |-> record[k + 3]]
         = <<Token(SUBTYPE_START, PyInt(1)), Token(SUBTYPE_START, PyInt(2)),
             Token(SUBTYPE_END, PyInt(2)), Token(SUBTYPE_END, PyInt(1)),
             Token(SUBTYPE_START, PyInt(1)), Token(SUBTYPE_END, PyInt(1))>>

\* The tags that make a token.
TokenTags == DefinedTags \ {ENTITY_TYPE_EX, RECORD_END}

\* C27: every pass of read_record that is followed by another pass has read
\* a tag of the tag set and, ENTITY_TYPE_EX excepted (no token), has
\* appended one token with that tag behind the tokens read before; a pass at
\* RECORD_END appends nothing and returns the tokens as the record, and a
\* record returned is the tokens read, in their order.
C27_OneTokenPerTag ==
    [][/\ (pc = "record" /\ pc' = "record")
           => /\ index \in 0..(Len(data) - 1)
              /\ IF data[index + 1] = ENTITY_TYPE_EX THEN values' = values
                 ELSE /\ data[index + 1] \in TokenTags
                      /\ Len(values') = Len(values) + 1
                      /\ SubSeq(values', 1, Len(values)) = values
                      /\ values'[Len(values')].tag = data[index + 1]
       /\ AtTag(RECORD_END)
           => (pc' = "build" /\ record' = values /\ values' = values
               /\ index' = index + 1)
       /\ (pc = "record" /\ pc' = "build") => (record' = values /\ values' = values)
      ]_vars

\* C27 witness: the record of ten tokens read from eleven tags and
\* RECORD_END, the tags in the order of the bytes.
C27_Witness ==
    /\ pc = "build"
    /\ Len(record) = 10
    /\ [k \in 1..10 |-> record[k].tag]
         = <<ENTITY_TYPE, POINTER, INT, STR, DOUBLE, LONG_STR, LOCATION_VEC,
             SUBTYPE_START, POINTER, SUBTYPE_END>>

\* A raw index that is neither -1 nor a position of the entity list.
OutOfRange(v) == v.kind = "int" /\ (v.val[1] < -1 \/ v.val[1] >= Len(entities))
HasOutOfRangePointer ==
    \E e \in EntityIds :
        \/ OutOfRange(entities[e].attr_ptr)
        \/ \E t \in TokenIds(e) :
               entities[e].data[t].tag = POINTER /\ OutOfRange(entities[e].data[t].value)

\* C28 as claimed: with a pointer whose raw index is below -1 or not below
\* the length of the entity list, resolve_pointers fails: parse_sab returns
\* no builder.
C28_OutOfRangeFails ==
    [][(pc = "resolve" /\ HasOutOfRangePointer) => pc' = "failed"]_vars

\* C29: a record that is no marker record and has fewer tokens than an
\* entity needs makes build_entities raise: parse_sab fails with that
\* exception and the entity list gets no entity from the record.
C29_ShortRecordFails ==
    [][(pc = "build" /\ ~IsMarkerRecord /\ Len(record) < TokensNeeded)
        => (pc' = "failed" /\ error' = "IndexError" /\ entities' = entities)]_vars

\* C29 witness: parse_sab has failed for a record of two tokens in
\* version 700.
C29_Witness ==
    /\ pc = "failed"
    /\ error = "IndexError"
    /\ header.version = PyInt(700)
    /\ Len(record) = 2

\* C30: read_record starts every record with no token, no fragment and the
\* level 0.  So the level tokens of a record returned count the subtypes of
\* that record alone, and behind a record that ended with a pending fragment
\* and an open subtype the next record's type name is its own ("body") and
\* its first subtype has the level 1.
C30_PerRecordState ==
    [][/\ (pc = "records" /\ pc' = "record")
           => (values' = <<>> /\ entity_type' = <<>> /\ subtype_level' = 0)
       /\ (pc = "record" /\ pc' = "build")
           => \A k \in 1..Len(record') :
                  record'[k].tag = SUBTYPE_START
                      => record'[k].value = PyInt(Depth(record', k))
       /\ (pc = "build" /\ Buffer = CarryOverBuffer /\ Len(entities) = 1)
           => record = <<Token(ENTITY_TYPE, PyStr(BodyName)), Token(POINTER, PyInt(-1)),
                         Token(INT, PyInt(7)), Token(SUBTYPE_START, PyInt(1))>>
      ]_vars

\* C30 witness: the builder returned for that buffer: the first entity's
\* record ended with a fragment pending and a subtype open, the second entity
\* is named "body" and its subtype has the level 1.
C30_Witness ==
    /\ Returned
    /\ Buffer = CarryOverBuffer
    /\ entities[1].data = <<Token(SUBTYPE_START, PyInt(1))>>
    /\ entities[2].name = PyStr(BodyName)
    /\ entities[2].data = <<Token(SUBTYPE_START, PyInt(1))>>

\* The first call as one value.
MainCall ==
    [b |-> b, pc |-> pc, error |-> error, data |-> data, index |-> index,
     header |-> header, values |-> values, entity_type |-> entity_type,
     subtype_level |-> subtype_level, record |-> record, entities |-> entities,
     bodies |-> bodies]

RECURSIVE Alone(_)
\* The state in which a call in state c ends when it runs alone.
Alone(c) ==
    IF c.pc \in {"done", "failed"} THEN c
    ELSE CHOOSE r \in {Alone(n) : n \in {call_step(c)}} : TRUE

\* A call in state c that has ended has ended as it ends alone.
AsAlone(c) == c.pc \in {"done", "failed"} => c = Alone(StartCall(c.b))

====
